---- MODULE Spec2Model ----
(***************************************************************************)
(* Orchestration and aggregation layer of the shielding simulator:         *)
(*   - run_simulation: process-pool fan-out, as_completed collection,      *)
(*     progress emission (geant4_simulation.py)                            *)
(*   - G4RunManagerSingleton: per-process engine session                   *)
(*   - run_simulation_instance: one trial's event loop and scored energy   *)
(*   - calculate_attenuation / calculate_dose_rate: metric functions       *)
(* Arithmetic on energies is exact (integers and reduced fractions); the   *)
(* rounding of IEEE doubles is not modelled.                               *)
(***************************************************************************)
EXTENDS Integers, Sequences, FiniteSets, TLC

\* ------------------------------------------------------------------ bounds
\* Trials per batch. The source submits range(10); the batch is kept small
\* so that every completion order is explored.
NumTrials == 3
\* Worker processes of the ProcessPoolExecutor (os.cpu_count() in the source).
MaxWorkers == 2
\* Deposited energy of a trial that scored some (integer energy units); a
\* trial returns this or 0.
MaxTrialEnergy == 1

\* Events of one run. The source issues /run/beamOn 10000.
EventsPerRun == 2
\* Steps of one event that hit the sensitive detector, and the largest
\* energy one step deposits.
MaxStepsPerEvent == 2
MaxStepEnergy == 2
\* Arguments of the metric functions: total energies 0..MaxEnergy, linear
\* coefficients 1..MaxCoef, initial/photon energy and event count
\* -MaxArg..MaxArg, initial dose rates 0..MaxDose.
MaxEnergy == 2
MaxCoef == 2
MaxArg == 2
MaxDose == 1
\* Largest argument calculate_uncertainty is applied to (arguments start at -1).
MaxUncEvents == 60
\* SimulationThread: photon energies -1..MaxPhotonEnergy entered in the form,
\* batch totals 0 or MaxBatchTotal returned by run_simulation (the initial
\* dose rate of the form is MaxDose), and the number of emissions the GUI may
\* leave undelivered when the thread reports again.
MaxPhotonEnergy == 1
MaxBatchTotal == 1
MaxLag == 1
\* SimulationThread objects created by presses of Start while the window is
\* open.
MaxThreads == 2

\* ------------------------------------------------------ program constants
\* for i in range(100)
NumIterations == 100
\* num_events = 1000000
ThreadNumEvents == 1000000
\* self.progressBar.setRange(0, 100)
ProgressBarMax == 100
\* range(10) work items per call of run_simulation and /run/beamOn 10000 in
\* each: the event count of a batch (NumTrials and EventsPerRun stand for
\* them where the trials and events are stepped one by one).
BatchSize == 10
BeamOnEvents == 10000

Futures == 1..NumTrials
Workers == 1..MaxWorkers
TrialEnergies == {0, MaxTrialEnergy}

VARIABLES
    \* ---- run_simulation (the orchestrating caller)
    pc,                      \* "idle" | "collecting" | "unwinding" | "returned" | "raised"
    progress_callback,       \* TRUE when a progress sink was passed, FALSE for None
    fstate,                  \* future -> "pending" | "running" | "ok" | "failed"
    fvalue,                  \* future -> result of a future that is "ok"
    collected,               \* futures as_completed has already yielded
    order,                   \* futures in the order as_completed yielded them
    total_energy_deposited,  \* the accumulator of run_simulation
    emitted,                 \* values passed to progress_callback.emit, in order
    retTotal,                \* <<v>> once run_simulation returned v, <<>> otherwise
    surfaced,                \* failed futures whose exception reached the caller
    earlierEnergy,           \* TRUE once an earlier call ended with a non-zero accumulator
    runCount,                \* future -> times a worker entered run_simulation_instance for it
    \* ---- worker processes of the pool
    wTrial,                  \* worker -> future it is running, 0 when idle
    instance,                \* worker -> G4RunManagerSingleton._instance (0 is None)
    ctorCount,               \* worker -> G4RunManager() constructions in the process
    initCount,               \* worker -> initialize_geant4_components calls
    initDone,                \* worker -> Initialize() completed in the process
    getCalls,                \* worker -> get_instance calls in the process
    lastHandle,              \* worker -> handle the last get_instance call produced
    initRaisedIn,            \* worker -> future whose get_instance call raised (0: none)
    \* ---- one trial (run_simulation_instance) inside a worker
    tpc,                     \* "entry" | "beamOn" | "inEvent" | "returned"
    sd_total,                \* sensitive_detector.total_energy_deposited
    ea_total,                \* total_energy_deposited of the registered MyEventAction
    eventsDone,              \* events the run has finished
    stepsDone,               \* detector steps of the current event
    stepSum,                 \* energy of every step of every event of the run
    trialResult,             \* <<v>> once run_simulation_instance returned v
    \* ---- metric functions
    mIn,                     \* arguments the metric functions are applied to
    attOut,                  \* calculate_attenuation at E1, E2, a*E1+b*E2; <<>> before
    doseOut,                 \* calculate_dose_rate at (E1,D1), (E2,D1), (a*E1+b*E2,D1),
                             \* (E1,D2), (E1,a*D1+b*D2); <<>> before
    uncIn,                   \* argument n calculate_uncertainty is applied to
    uncOut,                  \* calculate_uncertainty at n and n + 1; <<>> before
    \* ---- SimulationThread and the GUI that consumes its signals
    rpc,                     \* "none" | "batch" | "report" | "finished" | "died"
    loop_i,                       \* loop index of SimulationThread.run
    thr_photon_energy,           \* self.photon_energy of the thread
    thr_initial_dose_rate,       \* self.initial_dose_rate of the thread
    run_total,               \* total_energy_deposited of the current iteration
    run_events,              \* primary events simulated to produce run_total
    iterations,              \* the list iterations of run
    uncertainties,           \* the list uncertainties of run
    failure,                 \* "none" | "engine" | "ZeroDivisionError": what ended run
    emitLog,                 \* every signal the thread emitted in this run, in order
    pending,                 \* emitted signals queued for the GUI thread, oldest first
    progressBar,             \* value shown by the progress bar
    resultLabel,             \* what the result label shows
    plotted,                 \* the emission the canvas last drew and the points it drew
    \* ---- Start pressed again: the threads created so far and their common sink
    sims,                    \* thread -> [st, i, photon_energy] of its run
    app,                     \* "open" | "aborted": the application process
    sinkQueue,               \* emissions of all threads queued for the GUI thread
    sinkBar,                 \* value shown by the progress bar
    sinkLabel                \* thread whose results the label shows (0: initial text,
                             \* -1: the message about invalid values)

poolVars == <<pc, progress_callback, fstate, fvalue, collected, order,
              total_energy_deposited, emitted, retTotal, surfaced, earlierEnergy, runCount>>
workerVars == <<wTrial, instance, ctorCount, initCount, initDone, getCalls, lastHandle,
                initRaisedIn>>
trialVars == <<tpc, sd_total, ea_total, eventsDone, stepsDone, stepSum, trialResult>>
metricVars == <<mIn, attOut, doseOut>>
uncVars == <<uncIn, uncOut>>
threadVars == <<rpc, loop_i, thr_photon_energy, thr_initial_dose_rate, run_total, run_events,
                iterations,
                uncertainties, failure, emitLog>>
guiVars == <<pending, progressBar, resultLabel, plotted>>
startVars == <<sims, app, sinkQueue, sinkBar, sinkLabel>>
vars == <<poolVars, workerVars, trialVars, metricVars, uncVars, threadVars, guiVars,
          startVars>>

\* ------------------------------------------------------------- helpers
RECURSIVE SumOver(_, _)
SumOver(f, S) ==
    IF S = {} THEN 0
    ELSE LET x == CHOOSE y \in S : TRUE IN f[x] + SumOver(f, S \ {x})

Min(S) == CHOOSE x \in S : \A y \in S : x <= y

Finished(f) == fstate[f] \in {"ok", "failed"}

\* int((futures.index(future) + 1) / len(futures) * 100); f is the 1-based
\* position of the future in the list futures.
ProgressValue(f) == (f * 100) \div NumTrials

\* A fresh worker process: the class attribute _instance is None.
ZeroPerWorker == [w \in Workers |-> 0]
FalsePerWorker == [w \in Workers |-> FALSE]

PoolInit ==
    /\ pc = "idle"
    /\ progress_callback = FALSE
    /\ fstate = [f \in Futures |-> "pending"]
    /\ fvalue = [f \in Futures |-> 0]
    /\ collected = {}
    /\ order = <<>>
    /\ total_energy_deposited = 0
    /\ emitted = <<>>
    /\ retTotal = <<>>
    /\ surfaced = <<>>
    /\ earlierEnergy = FALSE
    /\ runCount = [f \in Futures |-> 0]
    /\ wTrial = ZeroPerWorker
    /\ instance = ZeroPerWorker
    /\ ctorCount = ZeroPerWorker
    /\ initCount = ZeroPerWorker
    /\ initDone = FalsePerWorker
    /\ getCalls = ZeroPerWorker
    /\ lastHandle = ZeroPerWorker
    /\ initRaisedIn = ZeroPerWorker

\* ------------------------------------------------------- run_simulation
\* An accumulator that outlives the call (used to probe C20).
AccumulatorCarriedOver == total_energy_deposited

\* total_energy_deposited = 0
FreshAccumulator == 0

\* Entry of run_simulation: the executor is created (new worker processes),
\* the batch is submitted and the accumulator is set to 0.
CallRunSimulation ==
    /\ pc \in {"idle", "returned", "raised"}
    /\ pc' = "collecting"
    /\ progress_callback' \in BOOLEAN
    /\ fstate' = [f \in Futures |-> "pending"]
    /\ fvalue' = [f \in Futures |-> 0]
    /\ collected' = {}
    /\ order' = <<>>
    /\ total_energy_deposited' = FreshAccumulator
    /\ emitted' = <<>>
    /\ retTotal' = <<>>
    /\ surfaced' = <<>>
    /\ earlierEnergy' = (earlierEnergy \/ total_energy_deposited > 0)
    /\ runCount' = [f \in Futures |-> 0]
    /\ wTrial' = ZeroPerWorker
    /\ instance' = ZeroPerWorker
    /\ ctorCount' = ZeroPerWorker
    /\ initCount' = ZeroPerWorker
    /\ initDone' = FalsePerWorker
    /\ getCalls' = ZeroPerWorker
    /\ lastHandle' = ZeroPerWorker
    /\ initRaisedIn' = ZeroPerWorker

\* get_instance without the `is None` test (used to probe C5).
GetInstanceAlwaysNew(w, initOk) ==
    /\ getCalls' = [getCalls EXCEPT ![w] = @ + 1]
    /\ ctorCount' = [ctorCount EXCEPT ![w] = @ + 1]
    /\ instance' = [instance EXCEPT ![w] = ctorCount[w] + 1]
    /\ initCount' = [initCount EXCEPT ![w] = @ + 1]
    /\ initDone' = [initDone EXCEPT ![w] = initOk]
    /\ lastHandle' = [lastHandle EXCEPT ![w] = IF initOk THEN ctorCount[w] + 1 ELSE @]

\* get_instance that keeps the handle only when the initialization completed
\* (used to probe C18).
GetInstanceForgetsFailedInit(w, initOk) ==
    /\ getCalls' = [getCalls EXCEPT ![w] = @ + 1]
    /\ IF instance[w] = 0
       THEN /\ ctorCount' = [ctorCount EXCEPT ![w] = @ + 1]
            /\ instance' = [instance EXCEPT ![w] = IF initOk THEN ctorCount[w] + 1 ELSE 0]
            /\ initCount' = [initCount EXCEPT ![w] = @ + 1]
            /\ initDone' = [initDone EXCEPT ![w] = initOk]
            /\ lastHandle' = [lastHandle EXCEPT ![w] = IF initOk THEN ctorCount[w] + 1 ELSE @]
       ELSE /\ lastHandle' = [lastHandle EXCEPT ![w] = instance[w]]
            /\ UNCHANGED <<ctorCount, instance, initCount, initDone>>

\* get_instance in worker w; initOk says whether initialize_geant4_components
\* completes or raises. The handle is assigned before the initialization runs.
GetInstance(w, initOk) ==
    /\ getCalls' = [getCalls EXCEPT ![w] = @ + 1]
    /\ IF instance[w] = 0
       THEN /\ ctorCount' = [ctorCount EXCEPT ![w] = @ + 1]
            /\ instance' = [instance EXCEPT ![w] = ctorCount[w] + 1]
            /\ initCount' = [initCount EXCEPT ![w] = @ + 1]
            /\ initDone' = [initDone EXCEPT ![w] = initOk]
            /\ lastHandle' = [lastHandle EXCEPT ![w] = IF initOk THEN ctorCount[w] + 1 ELSE @]
       ELSE /\ lastHandle' = [lastHandle EXCEPT ![w] = instance[w]]
            /\ UNCHANGED <<ctorCount, instance, initCount, initDone>>

\* A work item that is queued again when its call raised (used to probe C21).
AfterExceptionRequeued == "pending"

\* An exception that leaves run_simulation_instance is stored in the future
\* of the work item, which is then done: nothing submits it again.
AfterException == "failed"

\* An idle worker takes the oldest queued work item and enters
\* run_simulation_instance, whose first statement is get_instance. When the
\* initialization raises, the trial fails at once.
StartTrial(w) ==
    /\ pc \in {"collecting", "unwinding"}
    /\ wTrial[w] = 0
    /\ \E f \in Futures :
         /\ fstate[f] = "pending"
         /\ f = Min({g \in Futures : fstate[g] = "pending"})
         /\ runCount' = [runCount EXCEPT ![f] = @ + 1]
         /\ \E initOk \in BOOLEAN :
              /\ GetInstance(w, initOk)
              /\ IF instance[w] = 0 /\ ~initOk
                 THEN /\ fstate' = [fstate EXCEPT ![f] = AfterException]
                      /\ initRaisedIn' = [initRaisedIn EXCEPT ![w] = f]
                      /\ UNCHANGED wTrial
                 ELSE /\ fstate' = [fstate EXCEPT ![f] = "running"]
                      /\ wTrial' = [wTrial EXCEPT ![w] = f]
                      /\ UNCHANGED initRaisedIn
    /\ UNCHANGED <<pc, progress_callback, fvalue, collected, order,
                   total_energy_deposited, emitted, retTotal, surfaced, earlierEnergy>>

\* The rest of run_simulation_instance: the run either returns the scored
\* energy or an engine error makes the future fail.
FinishTrial(w) ==
    /\ wTrial[w] # 0
    /\ \/ \E e \in TrialEnergies :
            /\ fstate' = [fstate EXCEPT ![wTrial[w]] = "ok"]
            /\ fvalue' = [fvalue EXCEPT ![wTrial[w]] = e]
       \/ /\ fstate' = [fstate EXCEPT ![wTrial[w]] = AfterException]
          /\ UNCHANGED fvalue
    /\ wTrial' = [wTrial EXCEPT ![w] = 0]
    /\ UNCHANGED <<pc, progress_callback, collected, order, total_energy_deposited,
                   emitted, retTotal, surfaced, earlierEnergy, runCount>>
    /\ UNCHANGED <<instance, ctorCount, initCount, initDone, getCalls, lastHandle,
                   initRaisedIn>>

\* future.result() re-raises the exception of a failed trial.
ResultNeverRaises(f) == FALSE
ResultRaises(f) == fstate[f] = "failed"

\* total_energy_deposited += future.result()
AccumulateOverwrites(acc, v) == v
Accumulate(acc, v) == acc + v

\* if progress_callback: progress_callback.emit(...)
EmitProgress(f) ==
    IF progress_callback THEN Append(emitted, ProgressValue(f)) ELSE emitted

\* One iteration of `for future in as_completed(futures)`: any finished
\* future not yet yielded. future.result() returns the value or re-raises
\* the trial's exception, which leaves the loop.
Collect(f) ==
    /\ pc = "collecting"
    /\ f \notin collected
    /\ Finished(f)
    /\ collected' = collected \cup {f}
    /\ order' = Append(order, f)
    /\ IF ~ResultRaises(f)
       THEN /\ total_energy_deposited' = Accumulate(total_energy_deposited, fvalue[f])
            /\ emitted' = EmitProgress(f)
            /\ UNCHANGED pc
       ELSE /\ pc' = "unwinding"
            /\ UNCHANGED <<total_energy_deposited, emitted>>
    /\ UNCHANGED <<progress_callback, fstate, fvalue, retTotal, surfaced, earlierEnergy, runCount>>
    /\ UNCHANGED workerVars

\* The loop is exhausted, the with block shuts the pool down and the
\* accumulator is returned.
ReturnTotal ==
    /\ pc = "collecting"
    /\ collected = Futures
    /\ pc' = "returned"
    /\ retTotal' = <<total_energy_deposited>>
    /\ UNCHANGED <<progress_callback, fstate, fvalue, collected, order,
                   total_energy_deposited, emitted, surfaced, earlierEnergy, runCount>>
    /\ UNCHANGED workerVars

\* A pool exit that returns without waiting for the submitted work items
\* (used to probe C16).
ShutdownReturnsAtOnce == TRUE

\* The exit of the with block is shutdown(wait=True) without cancellation:
\* it returns once every submitted work item, queued ones included, has run.
ShutdownReturns == \A f \in Futures : Finished(f)

\* The exception leaves the with block, then reaches the caller.
RaiseFailure ==
    /\ pc = "unwinding"
    /\ ShutdownReturns
    /\ pc' = "raised"
    /\ surfaced' = Append(surfaced, order[Len(order)])
    /\ UNCHANGED <<progress_callback, fstate, fvalue, collected, order,
                   total_energy_deposited, emitted, retTotal, earlierEnergy, runCount>>
    /\ UNCHANGED workerVars

\* ---------------------------------------------- run_simulation_instance
\* The trial as the engine drives it: for each event BeginOfEventAction, the
\* steps inside the detector volume (ProcessHits), EndOfEventAction. The
\* engine is taken to deliver the hits to the trial's sensitive detector and
\* to call the event action that MyActionInitialization.Build registered.
TrialIdle ==
    /\ tpc = "entry"
    /\ sd_total = 0
    /\ ea_total = 0
    /\ eventsDone = 0
    /\ stepsDone = 0
    /\ stepSum = 0
    /\ trialResult = <<>>

\* get_instance, the trial's detector construction with its sensitive
\* detector, the action initialization (Build registers
\* MyEventAction(sensitive_detector)), /run/initialize, and the start of
\* /run/beamOn.
TrialEnter ==
    /\ tpc = "entry"
    /\ tpc' = "beamOn"
    /\ sd_total' = 0
    /\ ea_total' = 0
    /\ eventsDone' = 0
    /\ UNCHANGED <<stepsDone, stepSum, trialResult>>

\* MyEventAction.BeginOfEventAction: self.detector.Reset()
BeginOfEventAction ==
    /\ tpc = "beamOn"
    /\ eventsDone < EventsPerRun
    /\ tpc' = "inEvent"
    /\ sd_total' = 0
    /\ stepsDone' = 0
    /\ UNCHANGED <<ea_total, eventsDone, stepSum, trialResult>>

\* MySensitiveDetector.ProcessHits for a step depositing e
ProcessHits(e) ==
    /\ tpc = "inEvent"
    /\ stepsDone < MaxStepsPerEvent
    /\ sd_total' = sd_total + e
    /\ stepSum' = stepSum + e
    /\ stepsDone' = stepsDone + 1
    /\ UNCHANGED <<tpc, ea_total, eventsDone, trialResult>>

\* MyEventAction.EndOfEventAction
EndOfEventAction ==
    /\ tpc = "inEvent"
    /\ ea_total' = ea_total + sd_total
    /\ eventsDone' = eventsDone + 1
    /\ tpc' = "beamOn"
    /\ UNCHANGED <<sd_total, stepsDone, stepSum, trialResult>>

\* total_energy_deposited = sensitive_detector.GetTotalEnergyDeposited()
\* return total_energy_deposited
TrialReturn ==
    /\ tpc = "beamOn"
    /\ eventsDone = EventsPerRun
    /\ trialResult' = <<sd_total>>
    /\ tpc' = "returned"
    /\ UNCHANGED <<sd_total, ea_total, eventsDone, stepsDone, stepSum>>

\* ------------------------------------------------------ metric functions
\* Numbers are exact fractions [num, den] with den > 0 in lowest terms; err
\* marks a raised ZeroDivisionError, which propagates through every later
\* operation of the expression.
RECURSIVE GCD(_, _)
GCD(a, b) == IF b = 0 THEN a ELSE GCD(b, a % b)
Abs(x) == IF x < 0 THEN -x ELSE x

Q(n, d) ==
    LET g == GCD(Abs(n), Abs(d))
        sgn == IF d < 0 THEN -1 ELSE 1
    IN [err |-> FALSE, num |-> sgn * (n \div g), den |-> sgn * (d \div g)]

Num(i) == [err |-> FALSE, num |-> i, den |-> 1]
ZeroDivisionError == [err |-> TRUE, num |-> 0, den |-> 1]

\* x * y
PyMul(x, y) ==
    IF x.err \/ y.err THEN ZeroDivisionError
    ELSE Q(x.num * y.num, x.den * y.den)

\* x + y
PyAdd(x, y) ==
    IF x.err \/ y.err THEN ZeroDivisionError
    ELSE Q(x.num * y.den + y.num * x.den, x.den * y.den)

\* x / y: true division, raising ZeroDivisionError on a zero divisor
PyDiv(x, y) ==
    IF x.err \/ y.err THEN ZeroDivisionError
    ELSE IF y.num = 0 THEN ZeroDivisionError
    ELSE Q(x.num * y.den, x.den * y.num)

\* Variants of the metric functions used to probe the properties below.
AttenuationZeroOnZeroDivisor(total, initial_energy, num_events) ==
    IF initial_energy.num = 0 \/ num_events.num = 0 THEN Num(0)
    ELSE PyDiv(total, PyMul(initial_energy, num_events))
AttenuationUnparenthesised(total, initial_energy, num_events) ==
    PyMul(PyDiv(total, initial_energy), num_events)
DoseRateZeroOnZeroDivisor(total, initial_dose_rate, photon_energy, num_events) ==
    IF photon_energy.num = 0 \/ num_events.num = 0 THEN Num(0)
    ELSE PyMul(initial_dose_rate, PyDiv(PyDiv(total, num_events), photon_energy))
DoseRateDropsPhotonEnergy(total, initial_dose_rate, photon_energy, num_events) ==
    PyMul(initial_dose_rate, PyDiv(total, num_events))

\* return total_energy_deposited / (initial_energy * num_events)
calculate_attenuation(total, initial_energy, num_events) ==
    PyDiv(total, PyMul(initial_energy, num_events))

\* deposited_dose_rate = (total_energy_deposited / num_events) / photon_energy
\* return initial_dose_rate * deposited_dose_rate
calculate_dose_rate(total, initial_dose_rate, photon_energy, num_events) ==
    LET deposited_dose_rate == PyDiv(PyDiv(total, num_events), photon_energy)
    IN PyMul(initial_dose_rate, deposited_dose_rate)

\* calculate_uncertainty without the + 1 (used to probe C11).
UncertaintyWithoutPlusOne(num_events) == PyDiv(Num(1), num_events)

\* return 1.0 / (num_events + 1)
calculate_uncertainty(num_events) == PyDiv(Num(1), PyAdd(num_events, Num(1)))

MetricInputs ==
    [E1 : 0..MaxEnergy, E2 : 0..MaxEnergy, a : 1..MaxCoef, b : 1..MaxCoef,
     energy : -MaxArg..MaxArg, n : -MaxArg..MaxArg,
     D1 : 0..MaxDose, D2 : 0..MaxDose]

MetricsIdle ==
    /\ mIn = [E1 |-> 0, E2 |-> 0, a |-> 1, b |-> 1, energy |-> 1, n |-> 1,
              D1 |-> 0, D2 |-> 0]
    /\ attOut = <<>>
    /\ doseOut = <<>>

MetricsInit ==
    /\ mIn \in MetricInputs
    /\ attOut = <<>>
    /\ doseOut = <<>>

\* The caller's pattern (geant4_simulation_gui.py, SimulationThread.run):
\* calculate_attenuation(total, self.photon_energy, num_events), applied to
\* the totals E1, E2 and a*E1 + b*E2.
CalcAttenuation ==
    /\ attOut = <<>>
    /\ attOut' = << calculate_attenuation(Num(mIn.E1), Num(mIn.energy), Num(mIn.n)),
                    calculate_attenuation(Num(mIn.E2), Num(mIn.energy), Num(mIn.n)),
                    calculate_attenuation(Num(mIn.a * mIn.E1 + mIn.b * mIn.E2),
                                          Num(mIn.energy), Num(mIn.n)) >>
    /\ UNCHANGED <<mIn, doseOut>>

\* calculate_dose_rate(total, self.initial_dose_rate, self.photon_energy,
\* num_events), applied to the totals E1, E2, a*E1 + b*E2 at dose rate D1
\* and to the total E1 at the dose rates D2 and a*D1 + b*D2.
CalcDoseRate ==
    /\ doseOut = <<>>
    /\ doseOut' = << calculate_dose_rate(Num(mIn.E1), Num(mIn.D1), Num(mIn.energy), Num(mIn.n)),
                     calculate_dose_rate(Num(mIn.E2), Num(mIn.D1), Num(mIn.energy), Num(mIn.n)),
                     calculate_dose_rate(Num(mIn.a * mIn.E1 + mIn.b * mIn.E2),
                                         Num(mIn.D1), Num(mIn.energy), Num(mIn.n)),
                     calculate_dose_rate(Num(mIn.E1), Num(mIn.D2), Num(mIn.energy), Num(mIn.n)),
                     calculate_dose_rate(Num(mIn.E1), Num(mIn.a * mIn.D1 + mIn.b * mIn.D2),
                                         Num(mIn.energy), Num(mIn.n)) >>
    /\ UNCHANGED <<mIn, attOut>>

UncIdle ==
    /\ uncIn = 0
    /\ uncOut = <<>>

UncInit ==
    /\ uncIn \in -1..MaxUncEvents
    /\ uncOut = <<>>

\* calculate_uncertainty applied to n and to n + 1 (SimulationThread.run calls
\* it with the loop index of successive iterations).
CalcUncertainty ==
    /\ uncOut = <<>>
    /\ uncOut' = << calculate_uncertainty(Num(uncIn)),
                    calculate_uncertainty(Num(uncIn + 1)) >>
    /\ UNCHANGED uncIn

\* ------------------------------------ SimulationThread and its consumer
PhotonEnergies == -1..MaxPhotonEnergy
DoseRates == {MaxDose}
BatchTotals == {0, MaxBatchTotal}

GuiIdle ==
    /\ rpc = "none"
    /\ loop_i = 0
    /\ thr_photon_energy = 1
    /\ thr_initial_dose_rate = 0
    /\ run_total = 0
    /\ run_events = 0
    /\ iterations = <<>>
    /\ uncertainties = <<>>
    /\ failure = "none"
    /\ emitLog = <<>>
    /\ pending = <<>>
    /\ progressBar = 0
    /\ resultLabel = [kind |-> "initial", attenuation |-> Num(0), dose_rate |-> Num(0)]
    /\ plotted = [iter |-> -1, points |-> 0]

\* Geant4SimulationApp.run_simulation, the slot of the Start button. A field
\* that float()/int() cannot parse raises ValueError, which is reported in
\* the result label; otherwise a SimulationThread is created with the parsed
\* values, its signals are connected and it is started (run begins with empty
\* lists). Start is taken while no thread is running and the GUI has
\* handled every queued emission.
StartSimulation ==
    /\ rpc \in {"none", "finished", "died"}
    /\ pending = <<>>
    /\ \/ /\ resultLabel' = [kind |-> "invalid", attenuation |-> Num(0),
                              dose_rate |-> Num(0)]
          /\ UNCHANGED <<rpc, loop_i, thr_photon_energy, thr_initial_dose_rate, run_total,
                         run_events, iterations, uncertainties, failure, emitLog>>
       \/ /\ thr_photon_energy' \in PhotonEnergies
          /\ thr_initial_dose_rate' \in DoseRates
          /\ rpc' = "batch"
          /\ loop_i' = 0
          /\ run_total' = 0
          /\ run_events' = 0
          /\ iterations' = <<>>
          /\ uncertainties' = <<>>
          /\ failure' = "none"
          /\ emitLog' = <<>>
          /\ UNCHANGED resultLabel
    /\ UNCHANGED <<pending, progressBar, plotted>>

\* total_energy_deposited = run_simulation(...): the batch returns its total
\* or raises, and an exception ends run.
ThreadRunBatch ==
    /\ rpc = "batch"
    /\ \/ /\ run_total' \in BatchTotals
          /\ run_events' = BatchSize * BeamOnEvents
          /\ rpc' = "report"
          /\ UNCHANGED failure
       \/ /\ rpc' = "died"
          /\ failure' = "engine"
          /\ UNCHANGED <<run_total, run_events>>
    /\ UNCHANGED <<loop_i, thr_photon_energy, thr_initial_dose_rate, iterations, uncertainties,
                   emitLog>>
    /\ UNCHANGED guiVars

\* self.update_progress.emit((i + 1) * 10 // 100)
ThreadProgressValue(k) == ((k + 1) * 10) \div 100

\* iterations.append(i)
IterationEntryOneBased(k) == k + 1
IterationEntry(k) == k

\* The three emissions of one iteration, in the order the statements stand.
\* update_plot carries the two list objects themselves: the entry records the
\* number of points they hold when emitted.
EmissionsResultsFirst(k, att, dose, points) ==
    << [sig |-> "results", iter |-> k, val |-> 0, attenuation |-> att, dose_rate |-> dose],
       [sig |-> "progress", iter |-> k, val |-> ThreadProgressValue(k),
        attenuation |-> Num(0), dose_rate |-> Num(0)],
       [sig |-> "plot", iter |-> k, val |-> points,
        attenuation |-> Num(0), dose_rate |-> Num(0)] >>
Emissions(k, att, dose, points) ==
    << [sig |-> "progress", iter |-> k, val |-> ThreadProgressValue(k),
        attenuation |-> Num(0), dose_rate |-> Num(0)],
       [sig |-> "results", iter |-> k, val |-> 0, attenuation |-> att, dose_rate |-> dose],
       [sig |-> "plot", iter |-> k, val |-> points,
        attenuation |-> Num(0), dose_rate |-> Num(0)] >>

\* What the log keeps of an emission: the signal, the iteration that emitted
\* it and its integer argument.
Logged(es) == [n \in 1..Len(es) |-> [sig |-> es[n].sig, iter |-> es[n].iter,
                                     val |-> es[n].val]]

\* The rest of one iteration: the two metrics (a ZeroDivisionError ends run),
\* the appends, the three emissions, the sleep and the step of the loop. The
\* batch total is dead once the metrics are computed and is cleared.
ThreadReport ==
    /\ rpc = "report"
    /\ Len(pending) <= MaxLag
    /\ LET attenuation == calculate_attenuation(Num(run_total), Num(thr_photon_energy),
                                                Num(ThreadNumEvents))
           dose_rate == calculate_dose_rate(Num(run_total), Num(thr_initial_dose_rate),
                                            Num(thr_photon_energy), Num(ThreadNumEvents))
       IN IF attenuation.err \/ dose_rate.err
          THEN /\ rpc' = "died"
               /\ failure' = "ZeroDivisionError"
               /\ UNCHANGED <<loop_i, iterations, uncertainties, emitLog, pending>>
          ELSE /\ uncertainties' = Append(uncertainties, calculate_uncertainty(Num(loop_i)))
               /\ iterations' = Append(iterations, IterationEntry(loop_i))
               /\ emitLog' = emitLog \o Logged(Emissions(loop_i, attenuation, dose_rate,
                                                          Len(iterations) + 1))
               /\ pending' = pending \o Emissions(loop_i, attenuation, dose_rate,
                                                   Len(iterations) + 1)
               /\ loop_i' = loop_i + 1
               /\ rpc' = IF loop_i + 1 = NumIterations THEN "finished" ELSE "batch"
               /\ UNCHANGED failure
    /\ run_total' = 0
    /\ run_events' = 0
    /\ UNCHANGED <<thr_photon_energy, thr_initial_dose_rate>>
    /\ UNCHANGED <<progressBar, resultLabel, plotted>>

\* The GUI thread handles the oldest queued emission in the connected slot:
\* progressBar.setValue, update_results, or update_plot, which draws the
\* lists it was handed as they are when the slot runs.
Deliver ==
    /\ pending # <<>>
    /\ LET ev == Head(pending)
       IN /\ progressBar' = IF ev.sig = "progress" THEN ev.val ELSE progressBar
          /\ resultLabel' = IF ev.sig = "results"
                            THEN [kind |-> "results", attenuation |-> ev.attenuation,
                                  dose_rate |-> ev.dose_rate]
                            ELSE resultLabel
          /\ plotted' = IF ev.sig = "plot"
                        THEN [iter |-> ev.iter, points |-> Len(iterations)]
                        ELSE plotted
    /\ pending' = Tail(pending)
    /\ UNCHANGED threadVars

\* ------------------------------------------- Start pressed more than once
Threads == 1..MaxThreads
Created == {t \in Threads : sims[t].st # "absent"}
Running == {t \in Threads : sims[t].st = "running"}
\* Photon energies entered at the presses of Start.
StartEnergies == {0, MaxPhotonEnergy}

StartsIdle ==
    /\ sims = [t \in Threads |-> [st |-> "absent", i |-> 0, photon_energy |-> 1]]
    /\ app = "open"
    /\ sinkQueue = <<>>
    /\ sinkBar = 0
    /\ sinkLabel = 0

\* Geant4SimulationApp.run_simulation with nothing that looks at an earlier
\* thread: the button stays enabled and self.simulation_thread is rebound.
\* An earlier thread that is still in run() either keeps running, its
\* signals still connected to the same slots, or the loss of its last
\* reference destroys the running QThread and the application aborts.
StartAgain ==
    /\ app = "open"
    /\ \/ /\ sinkLabel' = -1
          /\ UNCHANGED <<sims, app>>
       \/ /\ Cardinality(Created) < MaxThreads
          /\ \E pe \in StartEnergies :
                sims' = [sims EXCEPT ![Cardinality(Created) + 1] =
                            [st |-> "running", i |-> 0, photon_energy |-> pe]]
          /\ IF Running = {} THEN app' = "open" ELSE app' \in {"open", "aborted"}
          /\ UNCHANGED sinkLabel
    /\ UNCHANGED <<sinkQueue, sinkBar>>

\* One pass of the loop of run() in thread t: the batch returns or raises,
\* the metrics are computed (a ZeroDivisionError ends run), the series grows
\* and the three signals are emitted into the queue of the GUI thread.
ThreadIteration(t) ==
    /\ app = "open"
    /\ sims[t].st = "running"
    /\ Len(sinkQueue) <= MaxLag
    /\ \/ /\ sims' = [sims EXCEPT ![t].st = "died"]
          /\ UNCHANGED sinkQueue
       \/ \E total \in BatchTotals :
            LET attenuation == calculate_attenuation(Num(total), Num(sims[t].photon_energy),
                                                     Num(ThreadNumEvents))
                dose_rate == calculate_dose_rate(Num(total), Num(MaxDose),
                                                 Num(sims[t].photon_energy),
                                                 Num(ThreadNumEvents))
                es == Emissions(sims[t].i, attenuation, dose_rate, sims[t].i + 1)
            IN IF attenuation.err \/ dose_rate.err
               THEN /\ sims' = [sims EXCEPT ![t].st = "died"]
                    /\ UNCHANGED sinkQueue
               ELSE /\ sims' = [sims EXCEPT
                                   ![t].i = @ + 1,
                                   ![t].st = IF sims[t].i + 1 = NumIterations
                                             THEN "finished" ELSE "running"]
                    /\ sinkQueue' = sinkQueue \o
                          [n \in 1..Len(es) |-> [run |-> t, sig |-> es[n].sig,
                                                 val |-> es[n].val]]
    /\ UNCHANGED <<app, sinkBar, sinkLabel>>

\* The GUI thread handles the oldest queued emission, whichever thread sent
\* it: all threads are connected to the same slots (the canvas, which
\* update_plot redraws, is not kept here).
SinkDeliver ==
    /\ app = "open"
    /\ sinkQueue # <<>>
    /\ LET ev == Head(sinkQueue)
       IN /\ sinkBar' = IF ev.sig = "progress" THEN ev.val ELSE sinkBar
          /\ sinkLabel' = IF ev.sig = "results" THEN ev.run ELSE sinkLabel
    /\ sinkQueue' = Tail(sinkQueue)
    /\ UNCHANGED <<sims, app>>

\* -------------------------------------------------------- specifications
\* What each specification leaves alone.
outsidePool == <<trialVars, metricVars, uncVars, threadVars, guiVars,
    startVars>>
outsideTrial == <<poolVars, workerVars, metricVars, uncVars, threadVars, guiVars,
    startVars>>
outsideMetrics == <<poolVars, workerVars, trialVars, uncVars, threadVars, guiVars,
    startVars>>
outsideUncertainty == <<poolVars, workerVars, trialVars, metricVars, threadVars, guiVars,
    startVars>>
outsideGui == <<poolVars, workerVars, trialVars, metricVars, uncVars, startVars>>
outsideStarts == <<poolVars, workerVars, trialVars, metricVars, uncVars, threadVars, guiVars>>

Init == PoolInit /\ TrialIdle /\ MetricsIdle /\ UncIdle /\ GuiIdle /\ StartsIdle
Next ==
    \/ CallRunSimulation /\ UNCHANGED outsidePool
    \/ \E w \in Workers : StartTrial(w) /\ UNCHANGED outsidePool
    \/ \E w \in Workers : FinishTrial(w) /\ UNCHANGED outsidePool
    \/ \E f \in Futures : Collect(f) /\ UNCHANGED outsidePool
    \/ ReturnTotal /\ UNCHANGED outsidePool
    \/ RaiseFailure /\ UNCHANGED outsidePool
Spec == Init /\ [][Next]_vars

InitTrial == PoolInit /\ TrialIdle /\ MetricsIdle /\ UncIdle /\ GuiIdle /\ StartsIdle
NextTrial ==
    \/ TrialEnter /\ UNCHANGED outsideTrial
    \/ BeginOfEventAction /\ UNCHANGED outsideTrial
    \/ \E e \in 0..MaxStepEnergy :
          ProcessHits(e) /\ UNCHANGED outsideTrial
    \/ EndOfEventAction /\ UNCHANGED outsideTrial
    \/ TrialReturn /\ UNCHANGED outsideTrial
SpecTrial == InitTrial /\ [][NextTrial]_vars

InitMetrics == PoolInit /\ TrialIdle /\ MetricsInit /\ UncIdle /\ GuiIdle /\ StartsIdle
NextMetrics ==
    \/ CalcAttenuation /\ UNCHANGED outsideMetrics
    \/ CalcDoseRate /\ UNCHANGED outsideMetrics
SpecMetrics == InitMetrics /\ [][NextMetrics]_vars

InitUncertainty == PoolInit /\ TrialIdle /\ MetricsIdle /\ UncInit /\ GuiIdle /\ StartsIdle
NextUncertainty == CalcUncertainty /\ UNCHANGED outsideUncertainty
SpecUncertainty == InitUncertainty /\ [][NextUncertainty]_vars

InitGui == PoolInit /\ TrialIdle /\ MetricsIdle /\ UncIdle /\ GuiIdle /\ StartsIdle
NextGui ==
    \/ StartSimulation /\ UNCHANGED outsideGui
    \/ ThreadRunBatch /\ UNCHANGED outsideGui
    \/ ThreadReport /\ UNCHANGED outsideGui
    \/ Deliver /\ UNCHANGED outsideGui
SpecGui == InitGui /\ [][NextGui]_vars

InitStarts == PoolInit /\ TrialIdle /\ MetricsIdle /\ UncIdle /\ GuiIdle /\ StartsIdle
NextStarts ==
    \/ StartAgain /\ UNCHANGED outsideStarts
    \/ \E t \in Threads : ThreadIteration(t) /\ UNCHANGED outsideStarts
    \/ SinkDeliver /\ UNCHANGED outsideStarts
SpecStarts == InitStarts /\ [][NextStarts]_vars

\* ------------------------------------------------------------ properties
NonDecreasing(s) == \A i \in 1..(Len(s) - 1) : s[i] <= s[i + 1]
OutOfSubmissionOrder == \E i \in 1..(Len(order) - 1) : order[i] > order[i + 1]
SomeTrialFailed == \E f \in Futures : fstate[f] = "failed"

\* C1: when all trials of a batch succeed, run_simulation returns exactly the
\* sum of the trial results, whatever the order in which they completed.
C1_ReturnsSumOfTrials ==
    pc = "returned" =>
        /\ \A f \in Futures : fstate[f] = "ok"
        /\ retTotal = <<SumOver(fvalue, Futures)>>

\* A batch returned after collecting its trials out of submission order, with
\* at least two trials contributing energy.
C1_Witness ==
    /\ pc = "returned"
    /\ OutOfSubmissionOrder
    /\ Cardinality({f \in Futures : fvalue[f] > 0}) >= 2

\* C2: with a progress sink, the emitted progress values are non-decreasing
\* and the emission after the last completion is 100.
C2_ProgressNonDecreasingEndsAt100 ==
    progress_callback =>
        /\ NonDecreasing(emitted)
        /\ (Len(emitted) = NumTrials => emitted[NumTrials] = 100)

\* C3: one progress event per completion, and the event after the k-th
\* completion carries k/N (as a percentage).
C3_ProgressIsCompletedFraction ==
    progress_callback =>
        /\ Len(emitted) = Cardinality({f \in collected : fstate[f] = "ok"})
        /\ \A k \in 1..Len(emitted) : emitted[k] = (k * 100) \div NumTrials

\* C4: when a trial of the batch failed, the finished call has raised exactly
\* one failure, that of a failed trial, and has returned no total.
C4_FailureSurfacesOnceNoTotal ==
    (pc \in {"returned", "raised"} /\ SomeTrialFailed) =>
        /\ pc = "raised"
        /\ retTotal = <<>>
        /\ Len(surfaced) = 1
        /\ fstate[surfaced[1]] = "failed"

\* A batch that raised after energy of other trials had been accumulated.
C4_Witness ==
    /\ pc = "raised"
    /\ total_energy_deposited > 0
    /\ Len(order) >= 2

\* C5: in every worker process at most one G4RunManager is constructed and
\* initialize_geant4_components runs at most once, however many times
\* get_instance is called; every call that returns, returns the one handle.
C5_SessionInitialisedAtMostOnce ==
    \A w \in Workers :
        /\ ctorCount[w] <= 1
        /\ initCount[w] <= 1
        /\ (getCalls[w] >= 1 => instance[w] = 1)
        /\ (lastHandle[w] # 0 => lastHandle[w] = 1)

\* A worker process that served get_instance at least twice.
C5_Witness ==
    \E w \in Workers : getCalls[w] >= 2 /\ initCount[w] = 1 /\ lastHandle[w] = 1

\* C6: run_simulation_instance returns the energy deposited by every step of
\* every event of the run.
C6_TrialReturnsWholeRunEnergy ==
    tpc = "returned" => trialResult = <<stepSum>>

\* Exact arithmetic for stating the metric properties.
Plus(x, y) == Q(x.num * y.den + y.num * x.den, x.den * y.den)
Times(x, y) == Q(x.num * y.num, x.den * y.den)
Combo(x, y) == Plus(Times(Num(mIn.a), x), Times(Num(mIn.b), y))
AttCalled == Len(attOut) > 0
DoseCalled == Len(doseOut) > 0
NonPositiveArgs == mIn.energy <= 0 \/ mIn.n <= 0
ZeroArgs == mIn.energy = 0 \/ mIn.n = 0
PositiveArgs == mIn.energy > 0 /\ mIn.n > 0

\* C7 as stated: calculate_attenuation signals an error whenever
\* initial_energy <= 0 or num_events <= 0.
C7_AttenuationErrorOnNonPositive ==
    (AttCalled /\ NonPositiveArgs) => \A i \in 1..3 : attOut[i].err

\* C7 as amended: calculate_attenuation signals an error exactly when
\* initial_energy = 0 or num_events = 0; otherwise (negative arguments
\* included) it returns the quotient E / (initial_energy * num_events).
C7_AttenuationErrorExactlyOnZero ==
    AttCalled =>
        /\ \A i \in 1..3 : (attOut[i].err <=> ZeroArgs)
        /\ (~ZeroArgs => Times(attOut[1], Num(mIn.energy * mIn.n)) = Num(mIn.E1))

\* calculate_attenuation was called with a zero and a negative argument.
C7_Witness ==
    /\ AttCalled
    /\ mIn.energy = 0
    /\ mIn.n < 0
    /\ mIn.E1 > 0
    /\ attOut[1].err

\* C8 as stated: calculate_dose_rate signals an error whenever
\* photon_energy <= 0 or num_events <= 0.
C8_DoseRateErrorOnNonPositive ==
    (DoseCalled /\ NonPositiveArgs) => \A i \in 1..5 : doseOut[i].err

\* C8 as amended: calculate_dose_rate signals an error exactly when
\* photon_energy = 0 or num_events = 0; otherwise (negative arguments
\* included) it returns D * (E / n) / photon_energy.
C8_DoseRateErrorExactlyOnZero ==
    DoseCalled =>
        /\ \A i \in 1..5 : (doseOut[i].err <=> ZeroArgs)
        /\ (~ZeroArgs => Times(doseOut[1], Num(mIn.energy * mIn.n))
                            = Num(mIn.D1 * mIn.E1))

\* calculate_dose_rate was called with a negative photon energy and
\* num_events = 0.
C8_Witness ==
    /\ DoseCalled
    /\ mIn.energy < 0
    /\ mIn.n = 0
    /\ mIn.E1 > 0
    /\ mIn.D1 > 0
    /\ doseOut[1].err

\* C9: for initial_energy > 0 and num_events > 0, calculate_attenuation
\* returns E / (I * n), is linear in E, and attenuation(20, 1, 10000) = 0.002.
C9_AttenuationValueAndLinearity ==
    /\ calculate_attenuation(Num(20), Num(1), Num(10000)) = Q(2, 1000)
    /\ (AttCalled /\ PositiveArgs) =>
          /\ \A i \in 1..3 : ~attOut[i].err
          /\ Times(attOut[1], Num(mIn.energy * mIn.n)) = Num(mIn.E1)
          /\ Times(attOut[2], Num(mIn.energy * mIn.n)) = Num(mIn.E2)
          /\ attOut[3] = Combo(attOut[1], attOut[2])

\* calculate_attenuation was applied with initial_energy, num_events >= 2 to
\* two different non-zero totals and their combination.
C9_Witness ==
    /\ AttCalled
    /\ mIn.energy >= 2 /\ mIn.n >= 2
    /\ mIn.E1 > 0 /\ mIn.E2 > mIn.E1
    /\ mIn.a # mIn.b
    /\ attOut[3] # attOut[1]

\* C10: for photon_energy > 0 and num_events > 0, calculate_dose_rate returns
\* D * (E / n) / p and is linear in E and linear in D.
C10_DoseRateValueAndLinearity ==
    /\ calculate_dose_rate(Num(20), Num(1), Num(1), Num(10000)) = Q(2, 1000)
    /\ (DoseCalled /\ PositiveArgs) =>
          /\ \A i \in 1..5 : ~doseOut[i].err
          /\ Times(doseOut[1], Num(mIn.energy * mIn.n)) = Num(mIn.D1 * mIn.E1)
          /\ doseOut[3] = Combo(doseOut[1], doseOut[2])
          /\ doseOut[5] = Combo(doseOut[1], doseOut[4])

\* calculate_dose_rate was applied with photon_energy >= 2, num_events >= 2 to
\* non-zero totals and dose rates.
C10_Witness ==
    /\ DoseCalled
    /\ mIn.energy >= 2 /\ mIn.n >= 2
    /\ mIn.E1 > 0 /\ mIn.E2 > mIn.E1
    /\ mIn.D1 > 0 /\ mIn.D2 = 0
    /\ mIn.a # mIn.b
    /\ doseOut[1].num > 0

\* Order on exact fractions.
Less(x, y) == x.num * y.den < y.num * x.den

\* C11: for n >= 0, calculate_uncertainty(n) = 1 / (n + 1), it is strictly
\* decreasing (uncertainty(n + 1) < uncertainty(n)), and uncertainty(0) = 1.
C11_UncertaintyValueAndDecrease ==
    /\ calculate_uncertainty(Num(0)) = Num(1)
    /\ (Len(uncOut) > 0 /\ uncIn >= 0) =>
          /\ ~uncOut[1].err /\ ~uncOut[2].err
          /\ Times(uncOut[1], Num(uncIn + 1)) = Num(1)
          /\ Times(uncOut[2], Num(uncIn + 2)) = Num(1)
          /\ Less(uncOut[2], uncOut[1])

\* calculate_uncertainty was applied to some n >= 2 and to n + 1.
C11_Witness ==
    /\ Len(uncOut) > 0
    /\ uncIn >= 2
    /\ uncOut[1] = Q(1, uncIn + 1)


\* --------------------------------------------- SimulationThread emissions
SignalOrder == <<"progress", "results", "plot">>

\* C12: each completed iteration of SimulationThread.run fires exactly one
\* update_progress, then one update_results, then one update_plot, and the
\* emissions of iteration i all precede those of iteration i + 1.
C12_OneOrderedTriplePerIteration ==
    /\ Len(emitLog) = 3 * loop_i
    /\ \A k \in 1..Len(emitLog) :
          /\ emitLog[k].iter = (k - 1) \div 3
          /\ emitLog[k].sig = SignalOrder[((k - 1) % 3) + 1]
C12_Witness ==
    /\ loop_i >= 2
    /\ Len(emitLog) >= 6
    /\ emitLog[4].sig = "progress" /\ emitLog[4].iter = 1

ProgressEmissions == SelectSeq(emitLog, LAMBDA e : e.sig = "progress")

\* C13: within one run the values emitted through update_progress never
\* decrease, and the last one of a run that completed all its iterations is
\* full progress, the maximum of the progress bar's range.
C13_ProgressNonDecreasingEndsFull ==
    LET ps == ProgressEmissions
    IN /\ \A k \in 1..(Len(ps) - 1) : ps[k].val <= ps[k + 1].val
       /\ rpc = "finished" => ps[Len(ps)].val = ProgressBarMax

\* C14: a run starts from an empty convergence series; after k completed
\* iterations the series is iterations = [0..k-1] and uncertainties =
\* [1/(i+1) : i in 0..k-1], the update_plot emission of the k-th iteration
\* is made with exactly k entries in the series, so the series grows by one
\* per iteration and its earlier entries stay as they were.
C14_SeriesGrowsFromEmpty ==
    /\ Len(iterations) = loop_i
    /\ Len(uncertainties) = loop_i
    /\ \A j \in 1..Len(iterations) :
          /\ iterations[j] = j - 1
          /\ uncertainties[j] = Q(1, j)
    /\ \A k \in 1..Len(emitLog) :
          emitLog[k].sig = "plot" => emitLog[k].val = emitLog[k].iter + 1
\* A later run, started after the canvas drew iteration 2 or later of an
\* earlier one, has completed its first iteration.
C14_Witness ==
    /\ plotted.iter >= 2
    /\ loop_i = 1
    /\ iterations = <<0>>
    /\ Len(emitLog) = 3 /\ emitLog[3].sig = "plot"

\* The thread of the current run has called run_simulation at least once.
BatchDispatched == rpc = "report" \/ loop_i > 0 \/ failure # "none"

\* C15: a run started with a non-positive photon energy is rejected before
\* dispatch: the error is reported to the caller at once and no batch of
\* trials is launched.
C15_InvalidParametersLaunchNothing ==
    thr_photon_energy <= 0 =>
        /\ ~BatchDispatched
        /\ resultLabel.kind = "invalid"

\* ------------------------------------------------- failure of a batch
\* C16 (as stated): once run_simulation has observed the failure of a trial,
\* no trial of the batch that has not yet started is started.
C16_NoTrialStartedAfterFailure ==
    [][pc = "unwinding" =>
          \A f \in Futures : fstate[f] = "pending" => fstate'[f] = "pending"]_vars

\* C16 (amended): the pool does not abort the batch; the caller receives the
\* failure only after every trial of the batch, the ones queued when the
\* failure was observed included, has run to its end.
C16_FailureSurfacesAfterAllTrialsRan ==
    pc = "raised" => \A f \in Futures : Finished(f)
\* The failure was the first result collected, and the rest of the batch
\* ran to completion, uncollected, before the caller got it.
C16_Witness ==
    /\ pc = "raised"
    /\ Len(order) = 1
    /\ \A f \in Futures \ collected : fstate[f] = "ok" /\ fvalue[f] = MaxTrialEnergy

\* Emissions of the run other than the three per-iteration signals.
ErrorNotifications ==
    SelectSeq(emitLog, LAMBDA e : e.sig \notin {"progress", "results", "plot"})

\* C17: when a batch fails inside the loop of SimulationThread.run, the run
\* stops having emitted only the triples of its completed iterations, and
\* the consumer is sent exactly one terminal notification of the error, the
\* last emission of the run, which tells the kind of failure.
C17_FailedRunNotifiesOnce ==
    (rpc = "died" /\ failure = "engine") =>
        /\ Len(emitLog) = 3 * loop_i + 1
        /\ Len(ErrorNotifications) = 1
        /\ emitLog[Len(emitLog)].sig = failure

\* C18: when the initialization fails in the first get_instance call of a
\* process, the call raises, so the trial that made it fails, and no later
\* get_instance call in that process initializes again.
C18_FailedInitPropagatesNoRetry ==
    \A w \in Workers :
        initRaisedIn[w] # 0 =>
            /\ fstate[initRaisedIn[w]] = "failed"
            /\ wTrial[w] # initRaisedIn[w]
            /\ initCount[w] = 1
            /\ ctorCount[w] = 1
C18_Witness ==
    \E w \in Workers :
        /\ initRaisedIn[w] # 0
        /\ getCalls[w] >= 2
        /\ wTrial[w] # 0

C20_AccumulatorIsOwnBatchOnly ==
    [][/\ total_energy_deposited' =
             SumOver(fvalue', {f \in collected' : fstate'[f] = "ok"})
       /\ pc' = "returned" => retTotal' = <<SumOver(fvalue', Futures)>>
       /\ total_energy_deposited' # total_energy_deposited =>
             \/ /\ pc' = "collecting" /\ collected' = {}
                /\ total_energy_deposited' = 0
             \/ /\ pc = "collecting"
                /\ \E f \in Futures \ collected :
                      /\ collected' = collected \cup {f}
                      /\ total_energy_deposited' = total_energy_deposited + fvalue[f]
      ]_vars
\* A call that follows one which accumulated energy returned 0.
C20_Witness ==
    /\ earlierEnergy
    /\ pc = "returned"
    /\ retTotal = <<0>>

\* ------------------------------------------------ submission of trials
\* C21: a call of run_simulation submits a fixed number of trials, each
\* once: every future is entered by a worker at most once, and a trial that
\* failed is never submitted or run again.
C21_EachTrialRunAtMostOnce ==
    /\ DOMAIN fstate = 1..NumTrials
    /\ \A f \in Futures :
          /\ runCount[f] = IF fstate[f] = "pending" THEN 0 ELSE 1
          /\ f \in collected => Finished(f)
\* The batch is over with a failed trial that was entered once, while every
\* other trial was entered once too.
C21_Witness ==
    /\ pc = "raised"
    /\ \E f \in Futures : fstate[f] = "failed" /\ runCount[f] = 1
    /\ \A f \in Futures : runCount[f] = 1

\* C22: a trial that reaches its run command in a worker process runs on a
\* session whose initialization completed, and get_instance never hands out
\* a handle whose initialization did not complete, also after an earlier
\* get_instance call of the process failed while initializing.
C22_TrialsRunOnInitialisedSession ==
    \A w \in Workers :
        /\ wTrial[w] # 0 => initDone[w]
        /\ lastHandle[w] # 0 => initDone[w]

\* ------------------------------------------------- normalisation of a batch
\* C23: the num_events that SimulationThread.run passes to
\* calculate_attenuation and calculate_dose_rate is the number of primary
\* events simulated to produce the batch total it normalises (trials of the
\* batch times events per trial).
C23_NumEventsIsEventsSimulated ==
    rpc = "report" => ThreadNumEvents = run_events

\* ------------------------------------------------------------ termination
\* C24: when no batch fails, SimulationThread.run ends only after exactly
\* 100 iterations, having emitted exactly 100 triples of progress, results
\* and plot.
C24_RunEndsAfterAllIterations ==
    (rpc \in {"finished", "died"} /\ failure # "engine") =>
        /\ loop_i = NumIterations
        /\ Len(emitLog) = 3 * NumIterations

\* ------------------------------------------------------ one run at a time
\* C25: pressing Start while an earlier SimulationThread is still running
\* does not interleave the emissions of two runs at the sink: the value of
\* the progress bar goes down only with an emission of a run beside which
\* no other run is still running.
C25_ProgressOfOneRunAtATime ==
    [][sinkBar' < sinkBar =>
          \A u \in Threads :
              u # Head(sinkQueue).run => sims[u].st # "running"]_vars
====
